---- MODULE Spec2Model ----
(***************************************************************************)
(* Model of the moving-average forecasting demo                            *)
(* (src/src/moving_average_demo.py and src/streamlit_app.py).              *)
(*                                                                         *)
(* Python floats are modelled as exact rationals <<n, d>> in lowest terms  *)
(* with d > 0; the optional value None of List[Optional[float]] is the     *)
(* pair <<0, 0>>, which is no rational.  Python lists are sequences; the   *)
(* 0-based index i of the code is index i + 1 here.                        *)
(***************************************************************************)
EXTENDS Integers, Sequences, FiniteSets, TLC

VARIABLES
    pc,            \* position of the run / of the call under examination
    values,        \* the caller's list of values
    window,        \* args.window
    horizon,       \* args.horizon
    ret,           \* value returned by the function that was called
    raised,        \* exception that ended the call or the run ("none" if none)
    date,          \* the date argument of add_months
    months,        \* the months argument of add_months
    rows,          \* the records the csv.DictReader yields
    data,          \* args.data: "none", "missing" (no such file) or "file"
    lookback,      \* args.history
    series,        \* main: the loaded series
    smoothed,      \* main: moving_average(values, window)
    forecasts,     \* main: forecast(values, window, horizon)
    future_dates,  \* main: the synthesized forecast dates
    output         \* main: the lines printed so far

vars == <<pc, values, window, horizon, ret, raised, date, months, rows, data,
          lookback, series, smoothed, forecasts, future_dates, output>>

----------------------------------------------------------------------------
(* Bounds of the model *)

MaxLen == 3        \* longest input list of the function-call specifications
MaxWindow == 3     \* largest window
MaxHorizon == 3    \* largest horizon
MaxMonths == 14    \* largest |months| given to add_months
MaxRows == 2       \* most records in a CSV input

Vals == {10, 20, 30}

----------------------------------------------------------------------------
(* Exact arithmetic standing in for float arithmetic *)

None == <<0, 0>>

Abs(x) == IF x < 0 THEN -x ELSE x

Max(a, b) == IF a >= b THEN a ELSE b

Min(a, b) == IF a <= b THEN a ELSE b

RECURSIVE GCD(_, _)
GCD(a, b) == IF b = 0 THEN a ELSE GCD(b, a % b)

\* the rational n/d (d > 0) in lowest terms
Norm(n, d) == LET g == GCD(Abs(n), d) IN <<n \div g, d \div g>>

Float(n) == <<n, 1>>

RAdd(a, b) == Norm(a[1] * b[2] + b[1] * a[2], a[2] * b[2])

\* a / k for an integer k > 0
RDivInt(a, k) == Norm(a[1], a[2] * k)

\* sum(xs), starting from 0 as the builtin does
RECURSIVE RSum(_)
RSum(xs) == IF xs = <<>> THEN Float(0) ELSE RAdd(RSum(Tail(xs)), Head(xs))

\* seq[start:stop] for 0 <= start, stop (already clipped to the length)
PySlice(seq, start, stop) == SubSeq(seq, start + 1, Min(stop, Len(seq)))

\* seq[start:] for any integer start: a negative start counts from the end
PySliceFrom(seq, start) ==
    LET n == Len(seq)
        s == IF start < 0 THEN Max(n + start, 0) ELSE Min(start, n)
    IN  SubSeq(seq, s + 1, n)

----------------------------------------------------------------------------
(* moving_average, moving_average_demo.py:95-106 *)

\* moving_average_partial: a short slice is averaged instead of left undefined
moving_average_partial(vals, w) ==
    IF w <= 0
    THEN [raised |-> "ValueError", ret |-> <<>>]
    ELSE [raised |-> "none",
          ret |-> [i \in 1..Len(vals) |->
                     LET idx == i - 1
                         start == Max(0, idx - w + 1)
                         window_slice == PySlice(vals, start, idx + 1)
                     IN  RDivInt(RSum(window_slice), Len(window_slice))]]

\* moving_average_nocheck: the guard reads `window < 0`, so a zero window
\* reaches the division
moving_average_nocheck(vals, w) ==
    IF w < 0
    THEN [raised |-> "ValueError", ret |-> <<>>]
    ELSE IF w = 0
    THEN [raised |-> IF Len(vals) = 0 THEN "none" ELSE "ZeroDivisionError",
          ret |-> <<>>]
    ELSE [raised |-> "none",
          ret |-> [i \in 1..Len(vals) |->
                     LET idx == i - 1
                         start == Max(0, idx - w + 1)
                         window_slice == PySlice(vals, start, idx + 1)
                     IN  IF Len(window_slice) < w
                         THEN None
                         ELSE RDivInt(RSum(window_slice), w)]]

moving_average(vals, w) ==
    IF w <= 0
    THEN [raised |-> "ValueError", ret |-> <<>>]
    ELSE [raised |-> "none",
          ret |-> [i \in 1..Len(vals) |->
                     LET idx == i - 1
                         start == Max(0, idx - w + 1)
                         window_slice == PySlice(vals, start, idx + 1)
                     IN  IF Len(window_slice) < w
                         THEN None
                         ELSE RDivInt(RSum(window_slice), w)]]

----------------------------------------------------------------------------
(* forecast, moving_average_demo.py:109-118 *)

\* ForecastLoop_nocompound: the forecast is not appended to the history
RECURSIVE ForecastLoop_nocompound(_, _, _, _)
ForecastLoop_nocompound(history, fc, w, left) ==
    IF left = 0
    THEN [raised |-> "none", history |-> history, forecasts |-> fc]
    ELSE LET window_slice == PySliceFrom(history, -w) IN
         IF Len(window_slice) = 0
         THEN [raised |-> "ZeroDivisionError", history |-> history, forecasts |-> fc]
         ELSE LET f == RDivInt(RSum(window_slice), Len(window_slice)) IN
              ForecastLoop_nocompound(history, Append(fc, f), w, left - 1)

\* the loop of lines 114-117 with `left` iterations to go
RECURSIVE ForecastLoop(_, _, _, _)
ForecastLoop(history, fc, w, left) ==
    IF left = 0
    THEN [raised |-> "none", history |-> history, forecasts |-> fc]
    ELSE LET window_slice == PySliceFrom(history, -w) IN
         IF Len(window_slice) = 0
         THEN [raised |-> "ZeroDivisionError", history |-> history, forecasts |-> fc]
         ELSE LET f == RDivInt(RSum(window_slice), Len(window_slice)) IN
              ForecastLoop(Append(history, f), Append(fc, f), w, left - 1)

\* forecast_alias: `history = values` instead of `history = list(values)`
forecast_alias(vals, w, h) ==
    IF h <= 0
    THEN [raised |-> "none", ret |-> <<>>, values |-> vals]
    ELSE LET r == ForecastLoop(vals, <<>>, w, h) IN
         [raised |-> r.raised,
          ret |-> IF r.raised = "none" THEN r.forecasts ELSE <<>>,
          values |-> r.history]

\* the result, and the caller's list as the call leaves it
forecast(vals, w, h) ==
    IF h <= 0
    THEN [raised |-> "none", ret |-> <<>>, values |-> vals]
    ELSE LET r == ForecastLoop(vals, <<>>, w, h) IN
         [raised |-> r.raised,
          ret |-> IF r.raised = "none" THEN r.forecasts ELSE <<>>,
          values |-> vals]

----------------------------------------------------------------------------
(* add_months, moving_average_demo.py:121-125 *)

MINYEAR == 1       \* datetime.MINYEAR
MAXYEAR == 9999    \* datetime.MAXYEAR

NoDate == [year |-> 0, month |-> 0, day |-> 0]

\* calendar.isleap
isleap(year) == year % 4 = 0 /\ (year % 100 # 0 \/ year % 400 = 0)

\* calendar.monthrange(year, month)[1]
monthrange(year, month) ==
    LET mdays == <<31, 28, 31, 30, 31, 30, 31, 31, 30, 31, 30, 31>>
    IN  mdays[month] + (IF month = 2 /\ isleap(year) THEN 1 ELSE 0)

\* dt.date(year, month, day): ValueError unless it names a calendar day
MakeDate(year, month, day) ==
    IF /\ MINYEAR <= year /\ year <= MAXYEAR
       /\ 1 <= month /\ month <= 12
       /\ 1 <= day /\ day <= monthrange(year, month)
    THEN [raised |-> "none", ret |-> [year |-> year, month |-> month, day |-> day]]
    ELSE [raised |-> "ValueError", ret |-> NoDate]

\* add_months_noclamp: the day is carried over unclamped
add_months_noclamp(d, m) ==
    LET year == d.year + (d.month - 1 + m) \div 12
        month == ((d.month - 1 + m) % 12) + 1
    IN  MakeDate(year, month, d.day)

add_months(d, m) ==
    LET year == d.year + (d.month - 1 + m) \div 12
        month == ((d.month - 1 + m) % 12) + 1
        day == Min(d.day, monthrange(year, month))
    IN  MakeDate(year, month, day)

\* d1 < d2 as dt.date orders dates
DateLess(d1, d2) ==
    \/ d1.year < d2.year
    \/ d1.year = d2.year /\ d1.month < d2.month
    \/ d1.year = d2.year /\ d1.month = d2.month /\ d1.day < d2.day

----------------------------------------------------------------------------
(* CSV parsing, moving_average_demo.py:59-79 and streamlit_app.py:27-53 *)

\* row.get(name) of a record that lacks the field
PyNone == "<None>"

\* the texts a date field holds in this model
DateTexts == {"", " ", "2020-01-31", " 2020-11-30 ", "9999-11-30", "x"}

\* the texts a value field holds in this model
ValueTexts == {"", " ", "5", " 7 ", "x"}

\* str.strip()
strip(text) ==
    CASE text = " " -> ""
      [] text = " 2020-11-30 " -> "2020-11-30"
      [] text = " 7 " -> "7"
      [] OTHER -> text

\* Python truth value of row.get(name): None and the empty string are false
Truthy(field) == field # PyNone /\ field # ""

\* dt.date.fromisoformat(text)
fromisoformat(text) ==
    CASE text = "2020-01-31" -> MakeDate(2020, 1, 31)
      [] text = "2020-11-30" -> MakeDate(2020, 11, 30)
      [] text = "9999-11-30" -> MakeDate(9999, 11, 30)
      [] OTHER -> [raised |-> "ValueError", ret |-> NoDate]

\* float(text)
float(text) ==
    CASE text = "5" -> [raised |-> "none", ret |-> Float(5)]
      [] text = "7" -> [raised |-> "none", ret |-> Float(7)]
      [] OTHER -> [raised |-> "ValueError", ret |-> None]

\* points with p appended and moved in front of the later dates only, which
\* is where the stable list.sort(key=lambda p: p.date) leaves it
InsertByDate(points, p) ==
    LET k == Cardinality({i \in 1..Len(points) : ~DateLess(p.date, points[i].date)})
    IN  SubSeq(points, 1, k) \o <<p>> \o SubSeq(points, k + 1, Len(points))

RECURSIVE SortByDate(_)
SortByDate(points) ==
    IF points = <<>>
    THEN <<>>
    ELSE InsertByDate(SortByDate(SubSeq(points, 1, Len(points) - 1)),
                      points[Len(points)])

\* the loop over the reader's rows: the points read so far, or the exception
RECURSIVE ReadRows(_, _)
ReadRows(rs, points) ==
    IF rs = <<>>
    THEN [raised |-> "none", points |-> points]
    ELSE LET row == Head(rs) IN
         IF ~Truthy(row.date) \/ ~Truthy(row.value)
         THEN ReadRows(Tail(rs), points)
         ELSE LET d == fromisoformat(strip(row.date))
                  v == float(strip(row.value))
              IN  IF d.raised # "none"
                  THEN [raised |-> d.raised, points |-> points]
                  ELSE IF v.raised # "none"
                  THEN [raised |-> v.raised, points |-> points]
                  ELSE ReadRows(Tail(rs),
                                Append(points, [date |-> d.ret, value |-> v.ret]))

\* lines 63-79 and 38-53: read, sort, reject an empty result
ParseRows(rs) ==
    LET r == ReadRows(rs, <<>>) IN
    IF r.raised # "none"
    THEN [raised |-> r.raised, ret |-> <<>>]
    ELSE IF SortByDate(r.points) = <<>>
    THEN [raised |-> "ValueError", ret |-> <<>>]
    ELSE [raised |-> "none", ret |-> SortByDate(r.points)]

\* path is "missing" when no such file exists
load_series_from_csv(path, rs) ==
    IF path = "missing"
    THEN [raised |-> "FileNotFoundError", ret |-> <<>>]
    ELSE ParseRows(rs)

\* buffer is "upload" (has getvalue), "bytes" or "object" (anything else)
parse_uploaded_csv(buffer, rs) ==
    IF buffer \notin {"upload", "bytes"}
    THEN [raised |-> "ValueError", ret |-> <<>>]
    ELSE ParseRows(rs)

----------------------------------------------------------------------------
(* generate_demo_series, moving_average_demo.py:82-92 *)

DemoLength == 36   \* the default of `length`

\* round(12 * sin(2 * pi * i / 12), 2) in hundredths, i = 0..11; the other
\* terms of the value are whole hundredths, so the rounding of line 91
\* touches this term only
Seasonal == <<0, 600, 1039, 1200, 1039, 600, 0, -600, -1039, -1200, -1039, -600>>

generate_demo_series(length) ==
    [k \in 1..length |->
        LET i == k - 1 IN
        [date |-> add_months([year |-> 2021, month |-> 1, day |-> 1], i).ret,
         value |-> Norm(12000 + 90 * i + Seasonal[(i % 12) + 1] + 180 * ((i % 5) - 2),
                        100)]]

\* select_history, moving_average_demo.py:128-131
select_history(points, n) == IF n <= 0 THEN <<>> ELSE PySliceFrom(points, -n)

\* zip(a, b) as the pairs of the common prefix
Zip(a, b) == [i \in 1..Min(Len(a), Len(b)) |-> <<a[i], b[i]>>]

\* the lines print_history_table prints, moving_average_demo.py:134-140
history_table(points, ma) ==
    <<[kind |-> "text", text |-> ""],
      [kind |-> "text", text |-> "Recent history"],
      [kind |-> "text", text |-> "Date        Actual    MA"],
      [kind |-> "text", text |-> "----------------------------"]>> \o
    [i \in 1..Len(Zip(points, PySliceFrom(ma, -Len(points)))) |->
        LET pair == Zip(points, PySliceFrom(ma, -Len(points)))[i] IN
        [kind |-> "history", date |-> pair[1].date, actual |-> pair[1].value,
         ma |-> pair[2]]]

\* the lines print_forecast_table prints, moving_average_demo.py:143-148
forecast_table(dates, vals) ==
    <<[kind |-> "text", text |-> ""],
      [kind |-> "text", text |-> "Forecast horizon"],
      [kind |-> "text", text |-> "Date        Prediction"],
      [kind |-> "text", text |-> "----------------------"]>> \o
    [i \in 1..Len(Zip(dates, vals)) |->
        [kind |-> "forecast", date |-> dates[i], prediction |-> vals[i]]]

\* the lines print_ascii_chart prints, moving_average_demo.py:170-179; the
\* sparkline is kept as the number of characters on each side of the bar
ascii_chart(actuals, fc) ==
    IF actuals = <<>>
    THEN <<>>
    ELSE <<[kind |-> "text", text |-> ""],
           [kind |-> "text", text |-> "ASCII sparkline (| separates history/prediction)"],
           [kind |-> "spark", history |-> Len(actuals), future |-> Len(fc)]>>

----------------------------------------------------------------------------
(* Inputs of the function-call specifications *)

SeqsUpTo(S, n) == UNION {[1..k -> S] : k \in 0..n}

FloatVals == {Float(v) : v \in Vals}

\* leap and common years, a common century year, and the ends of the range
Years == {MINYEAR, 1900, 2000, 2020, 2021, MAXYEAR}

Dates == {d \in [year : Years, month : 1..12, day : 1..31] :
            d.day <= monthrange(d.year, d.month)}

MainIdle ==
    /\ rows = <<>>
    /\ data = "none"
    /\ lookback = 0
    /\ series = <<>>
    /\ smoothed = <<>>
    /\ forecasts = <<>>
    /\ future_dates = <<>>
    /\ output = <<>>

mainVars == <<rows, data, lookback, series, smoothed, forecasts, future_dates, output>>

----------------------------------------------------------------------------
(* Calls of moving_average on arbitrary arguments *)

InitMA ==
    /\ pc = "call"
    /\ values \in SeqsUpTo(FloatVals, MaxLen)
    /\ window \in -MaxWindow..MaxWindow
    /\ horizon = 0
    /\ ret = <<>>
    /\ raised = "none"
    /\ date = NoDate
    /\ months = 0
    /\ MainIdle

CallMovingAverage ==
    /\ pc = "call"
    /\ LET r == moving_average(values, window) IN
         /\ ret' = r.ret
         /\ raised' = r.raised
    /\ pc' = "done"
    /\ UNCHANGED <<values, window, horizon, date, months, mainVars>>

NextMA == CallMovingAverage

SpecMA == InitMA /\ [][NextMA]_vars

----------------------------------------------------------------------------
(* Calls of forecast on arbitrary arguments *)

InitForecast ==
    /\ pc = "call"
    /\ values \in SeqsUpTo(FloatVals, MaxLen)
    /\ window \in -MaxWindow..MaxWindow
    /\ horizon \in -1..MaxHorizon
    /\ ret = <<>>
    /\ raised = "none"
    /\ date = NoDate
    /\ months = 0
    /\ MainIdle

CallForecast ==
    /\ pc = "call"
    /\ LET r == forecast(values, window, horizon) IN
         /\ ret' = r.ret
         /\ raised' = r.raised
         /\ values' = r.values
    /\ pc' = "done"
    /\ UNCHANGED <<window, horizon, date, months, mainVars>>

NextForecast == CallForecast

SpecForecast == InitForecast /\ [][NextForecast]_vars

----------------------------------------------------------------------------
(* Calls of add_months on arbitrary arguments *)

InitDates ==
    /\ pc = "call"
    /\ date \in Dates
    /\ months \in -MaxMonths..MaxMonths
    /\ values = <<>>
    /\ window = 0
    /\ horizon = 0
    /\ ret = NoDate
    /\ raised = "none"
    /\ MainIdle

CallAddMonths ==
    /\ pc = "call"
    /\ LET r == add_months(date, months) IN
         /\ ret' = r.ret
         /\ raised' = r.raised
    /\ pc' = "done"
    /\ UNCHANGED <<values, window, horizon, date, months, mainVars>>

NextDates == CallAddMonths

SpecDates == InitDates /\ [][NextDates]_vars

----------------------------------------------------------------------------
(* Properties of moving_average (SpecMA) *)

\* the sum of the integer-valued inputs xs[lo..hi]
RECURSIVE IntSum(_, _, _)
IntSum(xs, lo, hi) == IF lo > hi THEN 0 ELSE xs[lo][1] + IntSum(xs, lo + 1, hi)

\* C1: for a window W > 0 moving_average returns one element per input
\* element; element i is None when i < W-1 and otherwise the sum of input
\* elements i-W+1 .. i divided by W.  No short-window average is produced.
C1_MovingAverageAligned ==
    (pc = "done" /\ window > 0) =>
        /\ raised = "none"
        /\ Len(ret) = Len(values)
        /\ \A i \in 0..Len(values) - 1 :
             IF i < window - 1
             THEN ret[i + 1] = None
             ELSE /\ ret[i + 1] # None
                  /\ ret[i + 1][2] > 0
                  /\ ret[i + 1][1] * window
                       = ret[i + 1][2] * IntSum(values, i - window + 2, i + 1)

C1_Witness ==
    /\ pc = "done"
    /\ window = 2
    /\ values = <<Float(10), Float(20), Float(30)>>
    /\ ret = <<None, Float(15), Float(25)>>

\* C5: for a window W <= 0 moving_average raises ValueError and returns
\* nothing, whatever the input, the empty list included.
C5_NonPositiveWindowRaises ==
    (pc = "done" /\ window <= 0) => (raised = "ValueError" /\ ret = <<>>)

C5_Witness ==
    /\ pc = "done"
    /\ window = 0
    /\ values # <<>>
    /\ raised = "ValueError"

----------------------------------------------------------------------------
(* Properties of forecast (SpecForecast) *)

RECURSIVE DenProd(_)
DenProd(xs) == IF xs = <<>> THEN 1 ELSE Head(xs)[2] * DenProd(Tail(xs))

\* the sum of the rationals xs, as a numerator over DenProd(xs)
RECURSIVE NumOver(_, _)
NumOver(xs, P) ==
    IF xs = <<>> THEN 0 ELSE Head(xs)[1] * (P \div Head(xs)[2]) + NumOver(Tail(xs), P)

\* x is the arithmetic mean of the non-empty sequence xs
IsMeanOf(x, xs) ==
    /\ x[2] > 0
    /\ x[1] * DenProd(xs) * Len(xs) = x[2] * NumOver(xs, DenProd(xs))

LastN(xs, n) == SubSeq(xs, Len(xs) - n + 1, Len(xs))

\* C2: for N >= 1, W >= 1 and H >= 0 forecast returns H values, value k
\* being the mean of the last min(W, N+k) elements of the input followed by
\* values 0..k-1; [10,20,30] with W=2 and H=3 gives [25, 27.5, 26.25].
C2_ForecastCompounds ==
    (pc = "done" /\ Len(values) >= 1 /\ window >= 1 /\ horizon >= 0) =>
        /\ raised = "none"
        /\ Len(ret) = horizon
        /\ \A k \in 0..horizon - 1 :
             LET working == values \o SubSeq(ret, 1, k)
             IN  IsMeanOf(ret[k + 1], LastN(working, Min(window, Len(values) + k)))
        /\ (values = <<Float(10), Float(20), Float(30)>> /\ window = 2 /\ horizon = 3)
             => ret = <<Float(25), <<55, 2>>, <<105, 4>>>>

C2_Witness ==
    /\ pc = "done"
    /\ values = <<Float(10), Float(20), Float(30)>>
    /\ window = 2
    /\ horizon = 3
    /\ raised = "none"
    /\ ret[2] = <<55, 2>>
    /\ ret[3] = <<105, 4>>

\* C3: for W >= 1, H >= 1 and an input shorter than W, the empty input
\* included, forecast completes without raising and returns H values.
C3_ShortInputNeverRaises ==
    (pc = "done" /\ window >= 1 /\ horizon >= 1 /\ Len(values) < window) =>
        (raised = "none" /\ Len(ret) = horizon)

\* What the code does for short inputs: a non-empty input shorter than the
\* window is averaged whole, and only the empty input raises.
ShortInputForecast ==
    (pc = "done" /\ window >= 1 /\ horizon >= 1 /\ Len(values) < window) =>
        IF values = <<>>
        THEN raised = "ZeroDivisionError" /\ ret = <<>>
        ELSE raised = "none" /\ Len(ret) = horizon

\* C6: a call with H = 0 returns the empty list, and every call leaves the
\* caller's list as it was.
C6_InputUnchanged ==
    [][(pc = "call" /\ pc' = "done") =>
          /\ values' = values
          /\ (horizon = 0 => (ret' = <<>> /\ raised' = "none"))]_vars

C6_Witness ==
    /\ pc = "done"
    /\ horizon = MaxHorizon
    /\ Len(values) = 2
    /\ raised = "none"
    /\ Len(ret) = horizon

----------------------------------------------------------------------------
(* Properties of add_months (SpecDates) *)

\* the number of days of a month, stated from the calendar rules
CalendarDays(y, m) ==
    CASE m \in {4, 6, 9, 11} -> 30
      [] m = 2 -> IF y % 400 = 0 \/ (y % 4 = 0 /\ y % 100 # 0) THEN 29 ELSE 28
      [] OTHER -> 31

IsCalendarDate(d) ==
    /\ d.year \in MINYEAR..MAXYEAR
    /\ d.month \in 1..12
    /\ d.day \in 1..CalendarDays(d.year, d.month)

\* months since year 0 of the month that add_months aims at
TargetMonthIndex == 12 * date.year + (date.month - 1) + months

TargetInRange ==
    /\ 12 * MINYEAR <= TargetMonthIndex
    /\ TargetMonthIndex <= 12 * MAXYEAR + 11

AddMonthsResultRight ==
    /\ raised = "none"
    /\ IsCalendarDate(ret)
    /\ 12 * ret.year + (ret.month - 1) = TargetMonthIndex
    /\ ret.day = Min(date.day, CalendarDays(ret.year, ret.month))
    /\ (date = [year |-> 2021, month |-> 1, day |-> 31] /\ months = 1)
         => ret = [year |-> 2021, month |-> 2, day |-> 28]
    /\ (date = [year |-> 2020, month |-> 1, day |-> 31] /\ months = 1)
         => ret = [year |-> 2020, month |-> 2, day |-> 29]

\* C4 (as claimed): for every date D and every integer M add_months returns
\* the date in year D.year + floor((D.month-1+M)/12), month
\* ((D.month-1+M) mod 12) + 1, with the day clamped to the month's length,
\* and the result is always a calendar date.
C4_AddMonthsAlwaysDate == (pc = "done") => AddMonthsResultRight

\* C4 (amended): the same, for every D and M whose target year lies in
\* MINYEAR..MAXYEAR; outside that range add_months raises ValueError.
C4_AddMonthsInRange ==
    (pc = "done") =>
        IF TargetInRange THEN AddMonthsResultRight ELSE raised = "ValueError"

C4_Witness ==
    /\ pc = "done"
    /\ date = [year |-> 2020, month |-> 1, day |-> 31]
    /\ months = -11
    /\ ret = [year |-> 2019, month |-> 2, day |-> 28]

----------------------------------------------------------------------------
(* Calls of the two CSV parsers on arbitrary records (SpecCsv) *)

Rows == [date : DateTexts \cup {PyNone}, value : ValueTexts \cup {PyNone}]

InitCsv ==
    /\ pc = "call"
    /\ rows \in SeqsUpTo(Rows, MaxRows)
    /\ data \in {"missing", "file", "upload", "bytes", "object"}
    /\ values = <<>>
    /\ window = 0
    /\ horizon = 0
    /\ ret = <<>>
    /\ raised = "none"
    /\ date = NoDate
    /\ months = 0
    /\ lookback = 0
    /\ series = <<>>
    /\ smoothed = <<>>
    /\ forecasts = <<>>
    /\ future_dates = <<>>
    /\ output = <<>>

CallLoadSeries ==
    /\ pc = "call"
    /\ data \in {"missing", "file"}
    /\ LET r == load_series_from_csv(data, rows) IN
         /\ ret' = r.ret
         /\ raised' = r.raised
    /\ pc' = "done"
    /\ UNCHANGED <<values, window, horizon, date, months, mainVars>>

CallParseUploaded ==
    /\ pc = "call"
    /\ data \in {"upload", "bytes", "object"}
    /\ LET r == parse_uploaded_csv(data, rows) IN
         /\ ret' = r.ret
         /\ raised' = r.raised
    /\ pc' = "done"
    /\ UNCHANGED <<values, window, horizon, date, months, mainVars>>

NextCsv == CallLoadSeries \/ CallParseUploaded

SpecCsv == InitCsv /\ [][NextCsv]_vars

\* a field that is missing or blank: absent, empty, or whitespace only
Blank(field) == field = PyNone \/ field = "" \/ field = " "

\* a field holding a well-formed date or number, padded or not
WellFormed(field) == field \in {"2020-01-31", " 2020-11-30 ", "9999-11-30", "5", " 7 "}

\* the records that are left when those with a missing or blank field go
Remaining(rs) == SelectSeq(rs, LAMBDA r : ~Blank(r.date) /\ ~Blank(r.value))

PointOf(row) ==
    [date |-> fromisoformat(strip(row.date)).ret, value |-> float(strip(row.value)).ret]

\* seq holds exactly the points of the records rs, in some order
SamePoints(seq, rs) ==
    /\ Len(seq) = Len(rs)
    /\ \E f \in [1..Len(rs) -> 1..Len(rs)] :
         /\ \A i, j \in 1..Len(rs) : f[i] = f[j] => i = j
         /\ \A i \in 1..Len(rs) : seq[i] = PointOf(rs[f[i]])

Ascending(seq) ==
    \A i, j \in 1..Len(seq) : i < j => ~DateLess(seq[j].date, seq[i].date)

ParserCalled == pc = "done" /\ data \in {"file", "upload", "bytes"}

\* C7: the parser skips every record whose date or value is missing or
\* blank, returns the remaining records sorted ascending by date, and raises
\* the data-validation error when none remains; it never returns an empty
\* series.  (Stated for inputs in which every field is missing, blank or
\* well formed.)
C7_BlankRecordsSkipped ==
    (/\ ParserCalled
     /\ \A i \in 1..Len(rows) :
          /\ Blank(rows[i].date) \/ WellFormed(rows[i].date)
          /\ Blank(rows[i].value) \/ WellFormed(rows[i].value))
    => /\ raised = "none" => ret # <<>>
       /\ IF Remaining(rows) = <<>>
          THEN raised = "ValueError"
          ELSE /\ raised = "none"
               /\ SamePoints(ret, Remaining(rows))
               /\ Ascending(ret)

\* What the code skips: the records with a field that is absent or the
\* empty string.  A record with a whitespace-only field is parsed, and fails.
Unset(field) == field = PyNone \/ field = ""

EmptyRecordsSkipped ==
    LET kept == SelectSeq(rows, LAMBDA r : ~Unset(r.date) /\ ~Unset(r.value)) IN
    ParserCalled =>
        /\ raised = "none" => ret # <<>>
        /\ IF \E i \in 1..Len(kept) : ~WellFormed(kept[i].date) \/ ~WellFormed(kept[i].value)
           THEN raised = "ValueError"
           ELSE IF kept = <<>>
           THEN raised = "ValueError"
           ELSE raised = "none" /\ SamePoints(ret, kept) /\ Ascending(ret)

Permuted(rs, f) == [i \in 1..Len(rs) |-> rs[f[i]]]

Orderings(n) == {f \in [1..n -> 1..n] : \A i, j \in 1..n : f[i] = f[j] => i = j}

\* C8: the records in any other order parse to the identical series.
C8_OrderIndependent ==
    ParserCalled =>
        \A f \in Orderings(Len(rows)) :
            LET other == ParseRows(Permuted(rows, f))
            IN  other.raised = raised /\ other.ret = ret

\* What the code guarantees about order: records whose parsed dates are
\* pairwise distinct parse to the same series in every order.
DistinctDatesOrderIndependent ==
    (/\ ParserCalled
     /\ raised = "none"
     /\ \A i, j \in 1..Len(ret) : i # j => ret[i].date # ret[j].date)
    => \A f \in Orderings(Len(rows)) :
          LET other == ParseRows(Permuted(rows, f))
          IN  other.raised = raised /\ other.ret = ret

----------------------------------------------------------------------------
(* A text-mode run: main, moving_average_demo.py:182-200 (SpecMain).       *)
(* pc names the statement the run is at; an exception leaves pc where it   *)
(* was raised and ends the run.                                            *)

MainRows == [date : {"", "2020-01-31", " 2020-11-30 ", "9999-11-30"},
             value : {" ", "5", " 7 "}]

InitMain ==
    /\ pc = "load"
    /\ data \in {"none", "missing", "file"}
    /\ rows \in IF data = "file" THEN SeqsUpTo(MainRows, MaxRows) ELSE {<<>>}
    /\ window \in -1..MaxWindow
    /\ horizon \in -1..MaxHorizon
    /\ lookback \in {0, 2, 10}
    /\ values = <<>>
    /\ ret = <<>>
    /\ raised = "none"
    /\ date = NoDate
    /\ months = 0
    /\ series = <<>>
    /\ smoothed = <<>>
    /\ forecasts = <<>>
    /\ future_dates = <<>>
    /\ output = <<>>

\* lines 184-189
MainLoad ==
    /\ pc = "load" /\ raised = "none"
    /\ LET r == IF data # "none"
                THEN load_series_from_csv(data, rows)
                ELSE [raised |-> "none", ret |-> generate_demo_series(DemoLength)]
       IN  IF r.raised # "none"
           THEN /\ raised' = r.raised
                /\ UNCHANGED <<pc, series, values>>
           ELSE /\ series' = r.ret
                /\ values' = [i \in 1..Len(r.ret) |-> r.ret[i].value]
                /\ pc' = "smooth"
                /\ UNCHANGED raised
    /\ UNCHANGED <<window, horizon, ret, date, months, rows, data, lookback,
                   smoothed, forecasts, future_dates, output>>

\* MainSmooth_PrintsFirst: the banner is printed before the smoothing
MainSmooth_PrintsFirst ==
    /\ pc = "smooth" /\ raised = "none"
    /\ output' = Append(output, [kind |-> "text", text |-> "Moving-average forecasting demo"])
    /\ LET r == moving_average(values, window)
       IN  IF r.raised # "none"
           THEN /\ raised' = r.raised
                /\ UNCHANGED <<pc, smoothed>>
           ELSE /\ smoothed' = r.ret
                /\ pc' = "forecast"
                /\ UNCHANGED raised
    /\ UNCHANGED <<values, window, horizon, ret, date, months, rows, data,
                   lookback, series, forecasts, future_dates>>

\* line 190
MainSmooth ==
    /\ pc = "smooth" /\ raised = "none"
    /\ LET r == moving_average(values, window)
       IN  IF r.raised # "none"
           THEN /\ raised' = r.raised
                /\ UNCHANGED <<pc, smoothed>>
           ELSE /\ smoothed' = r.ret
                /\ pc' = "forecast"
                /\ UNCHANGED raised
    /\ UNCHANGED <<values, window, horizon, ret, date, months, rows, data,
                   lookback, series, forecasts, future_dates, output>>

\* line 191
MainForecast ==
    /\ pc = "forecast" /\ raised = "none"
    /\ LET r == forecast(values, window, horizon)
       IN  /\ values' = r.values
           /\ IF r.raised # "none"
              THEN /\ raised' = r.raised
                   /\ UNCHANGED <<pc, forecasts>>
              ELSE /\ forecasts' = r.ret
                   /\ pc' = "dates"
                   /\ UNCHANGED raised
    /\ UNCHANGED <<window, horizon, ret, date, months, rows, data, lookback,
                   series, smoothed, future_dates, output>>

\* MainFutureDates_FromZero: add_months(series[-1].date, i) for i in range(horizon)
MainFutureDates_FromZero ==
    /\ pc = "dates" /\ raised = "none"
    /\ LET last == series[Len(series)].date
           stepped == [k \in 1..Max(horizon, 0) |-> add_months(last, k - 1)]
       IN  IF \E k \in DOMAIN stepped : stepped[k].raised # "none"
           THEN /\ raised' = "ValueError"
                /\ UNCHANGED <<pc, future_dates>>
           ELSE /\ future_dates' = [k \in DOMAIN stepped |-> stepped[k].ret]
                /\ pc' = "print_header"
                /\ UNCHANGED raised
    /\ UNCHANGED <<values, window, horizon, ret, date, months, rows, data,
                   lookback, series, smoothed, forecasts, output>>

\* line 192: index k here is i + 1 of range(horizon)
MainFutureDates ==
    /\ pc = "dates" /\ raised = "none"
    /\ LET last == series[Len(series)].date
           stepped == [k \in 1..Max(horizon, 0) |-> add_months(last, k)]
       IN  IF \E k \in DOMAIN stepped : stepped[k].raised # "none"
           THEN /\ raised' = "ValueError"
                /\ UNCHANGED <<pc, future_dates>>
           ELSE /\ future_dates' = [k \in DOMAIN stepped |-> stepped[k].ret]
                /\ pc' = "print_header"
                /\ UNCHANGED raised
    /\ UNCHANGED <<values, window, horizon, ret, date, months, rows, data,
                   lookback, series, smoothed, forecasts, output>>

\* lines 194-197
MainPrintHeader ==
    /\ pc = "print_header" /\ raised = "none"
    /\ output' = output \o
         <<[kind |-> "text", text |-> "Moving-average forecasting demo"],
           [kind |-> "window", n |-> window],
           [kind |-> "horizon", n |-> horizon]>>
    /\ pc' = "print_history"
    /\ UNCHANGED <<values, window, horizon, ret, raised, date, months, rows,
                   data, lookback, series, smoothed, forecasts, future_dates>>

\* line 198
MainPrintHistory ==
    /\ pc = "print_history" /\ raised = "none"
    /\ output' = output \o history_table(select_history(series, lookback), smoothed)
    /\ pc' = "print_forecast"
    /\ UNCHANGED <<values, window, horizon, ret, raised, date, months, rows,
                   data, lookback, series, smoothed, forecasts, future_dates>>

\* line 199
MainPrintForecast ==
    /\ pc = "print_forecast" /\ raised = "none"
    /\ output' = output \o forecast_table(future_dates, forecasts)
    /\ pc' = "print_chart"
    /\ UNCHANGED <<values, window, horizon, ret, raised, date, months, rows,
                   data, lookback, series, smoothed, forecasts, future_dates>>

\* line 200
MainPrintChart ==
    /\ pc = "print_chart" /\ raised = "none"
    /\ output' = output \o ascii_chart(values, forecasts)
    /\ pc' = "exit"
    /\ UNCHANGED <<values, window, horizon, ret, raised, date, months, rows,
                   data, lookback, series, smoothed, forecasts, future_dates>>

NextMain ==
    \/ MainLoad
    \/ MainSmooth
    \/ MainForecast
    \/ MainFutureDates
    \/ MainPrintHeader
    \/ MainPrintHistory
    \/ MainPrintForecast
    \/ MainPrintChart

SpecMain == InitMain /\ [][NextMain]_vars

Printing == {"print_history", "print_forecast", "print_chart", "exit"}

\* C9: a run that fails with FileNotFoundError or ValueError has printed
\* nothing, and a line is printed only once loading, smoothing, forecasting
\* and date stepping have all succeeded.
C9_NoPartialFailure ==
    /\ raised # "none" => (raised \in {"FileNotFoundError", "ValueError"} /\ output = <<>>)
    /\ output # <<>> =>
         /\ raised = "none"
         /\ pc \in Printing
         /\ series # <<>>
         /\ Len(smoothed) = Len(series)
         /\ Len(forecasts) = Max(horizon, 0)
         /\ Len(future_dates) = Max(horizon, 0)

C9_Witness ==
    /\ pc = "smooth"
    /\ data = "file"
    /\ series # <<>>
    /\ window <= 0
    /\ raised = "ValueError"
    /\ output = <<>>

LastDate == series[Len(series)].date

MonthIndex(d) == 12 * d.year + (d.month - 1)

\* the run has reached line 192 and either passed it or stopped there
DatesStepTaken ==
    \/ pc \in Printing \cup {"print_header"}
    \/ pc = "dates" /\ raised # "none"

ForecastDatesRight ==
    /\ raised = "none"
    /\ Len(future_dates) = horizon
    /\ \A i \in 0..horizon - 1 :
         /\ IsCalendarDate(future_dates[i + 1])
         /\ MonthIndex(future_dates[i + 1]) = MonthIndex(LastDate) + i + 1
         /\ future_dates[i + 1].day
              = Min(LastDate.day, CalendarDays(future_dates[i + 1].year,
                                               future_dates[i + 1].month))
         /\ DateLess(LastDate, future_dates[i + 1])
         /\ i > 0 => DateLess(future_dates[i], future_dates[i + 1])

\* C10 (as claimed): for every series with last date D and every H >= 0 the
\* run synthesizes H forecast dates, date i being add_months(D, i+1), each
\* strictly after D and strictly increasing in i.
C10_ForecastDatesAlways ==
    (DatesStepTaken /\ horizon >= 0) => ForecastDatesRight

\* C10 (amended): the same whenever the month H months after D lies in a
\* year up to MAXYEAR; otherwise the run stops at line 192 with ValueError
\* and no forecast date.
C10_ForecastDatesInRange ==
    (DatesStepTaken /\ horizon >= 0) =>
        IF MonthIndex(LastDate) + horizon <= 12 * MAXYEAR + 11
        THEN ForecastDatesRight
        ELSE raised = "ValueError" /\ future_dates = <<>>

C10_Witness ==
    /\ pc = "exit"
    /\ horizon = 3
    /\ LastDate = [year |-> 2020, month |-> 11, day |-> 30]
    /\ future_dates = <<[year |-> 2020, month |-> 12, day |-> 30],
                        [year |-> 2021, month |-> 1, day |-> 30],
                        [year |-> 2021, month |-> 2, day |-> 28]>>

====
